---- MODULE Spec2Model ----
(***************************************************************************)
(* BSP tree construction, traversal and destruction of portail-ingenix     *)
(* (src/engine/bsp.py, src/engine/destruction.py, src/main.py).            *)
(*                                                                         *)
(* Numbers.  The program computes in floats.  The model computes exactly   *)
(* over integer coordinates: a vector scaled by 1/sqrt(l2) is kept as the  *)
(* pair (v, l2), a centroid as (sum, k) for sum/k, a signed distance as    *)
(* (num, k, l2) for num / (k * sqrt(l2)), a distance as (sq, k) for        *)
(* sqrt(sq)/k.  Comparisons are decided exactly on these forms.            *)
(***************************************************************************)
EXTENDS Integers, Sequences, FiniteSets, Bags, TLC

VARIABLES
    polys,      \* the list of Polygon objects made so far (the driver's list)
    lastVerts,  \* <<>> or <<verts>>: the argument of the latest from_vertices
    err,        \* "none", "ValueError" or "RecursionError"
    heap,       \* the BSPNode objects, by identity (index)
    stack,      \* the call stack of BSPNode.build frames
    phase,      \* "make", "building", "ready" or "raised"
    inputs,     \* the polygon list given to each construction / build call
    trees,      \* the roots of the BSPTree objects constructed, oldest first
    edits,      \* the (position, radius) of each apply_explosion call
    flat,       \* the list returned by the latest all_polygons() call
    flatOf      \* the root it was called on (0: never called)

vars == <<polys, lastVerts, err, heap, stack, phase, inputs, trees, edits,
          flat, flatOf>>

(***************************************************************************)
(* Bounds of the model.                                                    *)
(***************************************************************************)
MaxLen == 3
MaxEdits == 2
MaxCalls == 2
\* CPython's recursion limit, scaled: a build that terminates on n polygons
\* nests at most n frames, so only a build that never terminates reaches it.
RecursionLimit == 6

\* 1 / 1e-5, the tolerance of BSPNode.build
EpsInv == 100000

(***************************************************************************)
(* Vec3                                                                    *)
(***************************************************************************)
Sub(a, b) == <<a[1] - b[1], a[2] - b[2], a[3] - b[3]>>

Dot(a, b) == a[1] * b[1] + a[2] * b[2] + a[3] * b[3]

Cross(a, b) ==
    <<a[2] * b[3] - a[3] * b[2],
      a[3] * b[1] - a[1] * b[3],
      a[1] * b[2] - a[2] * b[1]>>

RECURSIVE ISqrtFrom(_, _)
ISqrtFrom(r, n) == IF (r + 1) * (r + 1) > n THEN r ELSE ISqrtFrom(r + 1, n)

\* floor(sqrt(n))
ISqrt(n) == ISqrtFrom(0, n)

\* A bug Normalize could have: a default axis for the zero vector.
NormalizeUnitX(v) ==
    IF Dot(v, v) = 0 THEN [v |-> <<1, 0, 0>>, l2 |-> 1]
    ELSE [v |-> v, l2 |-> Dot(v, v)]

\* v * (1 / length(v)), as (v, length^2); Vec3(0, 0, 0) when the length is 0.
Normalize(v) ==
    IF Dot(v, v) = 0 THEN [v |-> <<0, 0, 0>>, l2 |-> 1]
    ELSE [v |-> v, l2 |-> Dot(v, v)]

(***************************************************************************)
(* Plane: normal = normal.v / sqrt(normal.l2), d = d / sqrt(normal.l2)     *)
(***************************************************************************)
FromPoints(a, b, c) ==
    LET n == Normalize(Cross(Sub(b, a), Sub(c, a)))
    IN  [normal |-> n, d |-> Dot(n.v, a)]

\* mean of the vertices, as (sum, k)
Centroid(poly) ==
    LET vs == poly.vertices
        RECURSIVE Sum(_, _)
        Sum(i, c) == IF i > Len(vs) THEN 0 ELSE vs[i][c] + Sum(i + 1, c)
    IN  [sum |-> <<Sum(1, 1), Sum(1, 2), Sum(1, 3)>>, k |-> Len(vs)]

\* normal . p - d for p = c.sum / c.k, as num / (k * sqrt(l2))
ClassifyPoint(plane, c) ==
    [num |-> Dot(plane.normal.v, c.sum) - c.k * plane.d,
     k   |-> c.k,
     l2  |-> plane.normal.l2]

Abs(x) == IF x < 0 THEN -x ELSE x

\* abs(classification) <= 1e-5
WithinEps(s) == Abs(s.num) <= ISqrt(s.k * s.k * s.l2) \div EpsInv

\* classification > 0
Positive(s) == s.num > 0

(***************************************************************************)
(* Polygon                                                                 *)
(***************************************************************************)
\* A bug from_vertices could have: a triangle is refused.
FromVerticesStrict(verts) ==
    IF Len(verts) <= 3 THEN [ok |-> FALSE, poly |-> <<>>]
    ELSE [ok |-> TRUE,
          poly |-> <<[vertices |-> verts,
                      plane |-> FromPoints(verts[1], verts[2], verts[3])]>>]

\* ok = FALSE stands for the ValueError
FromVertices(verts) ==
    IF Len(verts) < 3 THEN [ok |-> FALSE, poly |-> <<>>]
    ELSE [ok |-> TRUE,
          poly |-> <<[vertices |-> verts,
                      plane |-> FromPoints(verts[1], verts[2], verts[3])]>>]

(***************************************************************************)
(* The vertex loops the driver supplies.                                   *)
(***************************************************************************)
FaceZ0    == << <<0, 0, 0>>,  <<2, 0, 0>>,  <<0, 2, 0>> >>
FaceZ2    == << <<0, 0, 2>>,  <<2, 0, 2>>,  <<0, 2, 2>> >>
FaceZm2   == << <<0, 0, -2>>, <<2, 0, -2>>, <<0, 2, -2>> >>
Collinear == << <<0, 0, 0>>,  <<1, 0, 0>>,  <<2, 0, 0>> >>
\* first three vertices in the plane z = 0, the others above and below it;
\* centroid (2/5, 2/5, 0), on that plane
Bent      == << <<0, 0, 0>>,  <<2, 0, 0>>,  <<0, 2, 0>>, <<0, 0, 3>>, <<0, 0, -3>> >>
\* first three vertices in the plane x = 0, the fourth off it; centroid
\* (1, 1, 0), off that plane
Skew      == << <<0, 0, -2>>, <<0, 2, 0>>,  <<0, 0, 2>>, <<4, 2, 0>> >>

VertLists ==
    {FaceZ0, FaceZ2, FaceZm2, Collinear, Bent, Skew,
     <<>>, << <<0, 0, 0>> >>, << <<0, 0, 0>>, <<2, 0, 0>> >>}

Positions == { <<0, 0, 0>> }
Radii == {0, 1, 3}

(***************************************************************************)
(* BSPNode                                                                 *)
(***************************************************************************)
\* BSPNode() before any build: no plane, no children, no polygons
EmptyNode == [plane |-> <<>>, front |-> 0, back |-> 0, polygons |-> <<>>]

NewFrame(node, polygons) ==
    [node |-> node, polygons |-> polygons, front |-> <<>>, back |-> <<>>,
     pc |-> "enter"]

\* Bugs the plane choice could have.
AdoptPlaneAlways(node, polygons) == <<polygons[1].plane>>

AdoptPlaneLast(node, polygons) ==
    IF node.plane = <<>> THEN <<polygons[Len(polygons)].plane>> ELSE node.plane

\* if not self.plane: self.plane = polygons[0].plane
AdoptPlane(node, polygons) ==
    IF node.plane = <<>> THEN <<polygons[1].plane>> ELSE node.plane

\* A bug the loop could have: front and back exchanged.
PartitionSwapped(plane, polygons) ==
    LET RECURSIVE Loop(_, _)
        Loop(i, acc) ==
            IF i > Len(polygons) THEN acc
            ELSE LET poly == polygons[i]
                     classification == ClassifyPoint(plane, Centroid(poly))
                 IN  IF WithinEps(classification)
                     THEN Loop(i + 1, [acc EXCEPT !.coplanar = Append(@, poly)])
                     ELSE IF Positive(classification)
                     THEN Loop(i + 1, [acc EXCEPT !.back = Append(@, poly)])
                     ELSE Loop(i + 1, [acc EXCEPT !.front = Append(@, poly)])
    IN  Loop(1, [coplanar |-> <<>>, front |-> <<>>, back |-> <<>>])

\* the for loop of build: each polygon goes to one of three lists
Partition(plane, polygons) ==
    LET RECURSIVE Loop(_, _)
        Loop(i, acc) ==
            IF i > Len(polygons) THEN acc
            ELSE LET poly == polygons[i]
                     classification == ClassifyPoint(plane, Centroid(poly))
                 IN  IF WithinEps(classification)
                     THEN Loop(i + 1, [acc EXCEPT !.coplanar = Append(@, poly)])
                     ELSE IF Positive(classification)
                     THEN Loop(i + 1, [acc EXCEPT !.front = Append(@, poly)])
                     ELSE Loop(i + 1, [acc EXCEPT !.back = Append(@, poly)])
    IN  Loop(1, [coplanar |-> <<>>, front |-> <<>>, back |-> <<>>])

\* the stack after the top frame returns: frames waiting only for that
\* return (pc = "ret") return with it
RECURSIVE Return(_)
Return(s) ==
    LET rest == SubSeq(s, 1, Len(s) - 1)
    IN  IF rest # <<>> /\ rest[Len(rest)].pc = "ret" THEN Return(rest) ELSE rest

Top == stack[Len(stack)]

SetTop(f) == [stack EXCEPT ![Len(stack)] = f]

\* the outermost build call has returned: the constructor hands out the root
Finish(root) ==
    /\ phase' = "ready"
    /\ trees' = IF \E i \in 1..Len(trees) : trees[i] = root
                THEN trees ELSE Append(trees, root)
    /\ err' = err

\* the call child.build(list) made from the top frame, which resumes at pc
CallChild(h, child, list, pc) ==
    IF Len(stack) >= RecursionLimit
    THEN /\ heap' = h
         /\ stack' = <<>>
         /\ phase' = "raised"
         /\ err' = "RecursionError"
         /\ trees' = trees
    ELSE /\ heap' = h
         /\ stack' = Append(SetTop([Top EXCEPT !.pc = pc]), NewFrame(child, list))
         /\ UNCHANGED <<phase, err, trees>>

\* build, lines 92-107
BuildPartition ==
    /\ phase = "building"
    /\ Top.pc = "enter"
    /\ IF Top.polygons = <<>>
       THEN /\ stack' = Return(stack)
            /\ heap' = heap
            /\ IF stack' = <<>> THEN Finish(stack[1].node)
               ELSE UNCHANGED <<phase, trees, err>>
       ELSE LET n     == heap[Top.node]
                plane == AdoptPlane(n, Top.polygons)
                parts == Partition(plane[1], Top.polygons)
            IN  /\ heap' = [heap EXCEPT ![Top.node] =
                              [n EXCEPT !.plane = plane,
                                        !.polygons = @ \o parts.coplanar]]
                /\ stack' = SetTop([Top EXCEPT !.front = parts.front,
                                               !.back = parts.back,
                                               !.pc = "front"])
                /\ UNCHANGED <<phase, trees, err>>
    /\ UNCHANGED <<polys, lastVerts, inputs, edits, flat, flatOf>>

\* build, lines 108-111
BuildFront ==
    /\ phase = "building"
    /\ Top.pc = "front"
    /\ IF Top.front = <<>>
       THEN /\ stack' = SetTop([Top EXCEPT !.pc = "back"])
            /\ UNCHANGED <<heap, phase, trees, err>>
       ELSE LET n == heap[Top.node]
            IN  IF n.front = 0
                THEN CallChild(Append([heap EXCEPT ![Top.node].front = Len(heap) + 1],
                                      EmptyNode),
                               Len(heap) + 1, Top.front, "back")
                ELSE CallChild(heap, n.front, Top.front, "back")
    /\ UNCHANGED <<polys, lastVerts, inputs, edits, flat, flatOf>>

\* build, lines 112-115, and the return
BuildBack ==
    /\ phase = "building"
    /\ Top.pc = "back"
    /\ IF Top.back = <<>>
       THEN /\ stack' = Return(stack)
            /\ heap' = heap
            /\ IF stack' = <<>> THEN Finish(stack[1].node)
               ELSE UNCHANGED <<phase, trees, err>>
       ELSE LET n == heap[Top.node]
            IN  IF n.back = 0
                THEN CallChild(Append([heap EXCEPT ![Top.node].back = Len(heap) + 1],
                                      EmptyNode),
                               Len(heap) + 1, Top.back, "ret")
                ELSE CallChild(heap, n.back, Top.back, "ret")
    /\ UNCHANGED <<polys, lastVerts, inputs, edits, flat, flatOf>>

(***************************************************************************)
(* BSPTree                                                                 *)
(***************************************************************************)
\* BSPTree(polygons): self.root = BSPNode(polygons), which builds if the
\* list is not empty
StartTree(polygons) ==
    LET root == Len(heap) + 1
    IN  /\ heap' = Append(heap, EmptyNode)
        /\ inputs' = Append(inputs, polygons)
        /\ err' = err
        /\ IF polygons = <<>>
           THEN /\ stack' = <<>>
                /\ trees' = Append(trees, root)
                /\ phase' = "ready"
           ELSE /\ stack' = <<NewFrame(root, polygons)>>
                /\ trees' = trees
                /\ phase' = "building"

\* A bug traverse could have: the back subtree is visited first.
RECURSIVE TraverseBackFirst(_, _, _)
TraverseBackFirst(h, node, result) ==
    IF node = 0 THEN result
    ELSE TraverseBackFirst(h, h[node].front,
             TraverseBackFirst(h, h[node].back, result \o h[node].polygons))

\* traverse of all_polygons, with the list it extends
RECURSIVE Traverse(_, _, _)
Traverse(h, node, result) ==
    IF node = 0 THEN result
    ELSE Traverse(h, h[node].back,
                  Traverse(h, h[node].front, result \o h[node].polygons))

AllPolygons(h, root) == Traverse(h, root, <<>>)

LastTree == trees[Len(trees)]

(***************************************************************************)
(* The driver                                                              *)
(***************************************************************************)
\* [Polygon.from_vertices(f) for f in faces], one face at a time
MakePolygon(verts) ==
    /\ phase = "make"
    /\ Len(polys) < MaxLen
    /\ lastVerts' = <<verts>>
    /\ LET r == FromVertices(verts)
       IN  IF r.ok
           THEN /\ polys' = polys \o r.poly
                /\ UNCHANGED <<err, phase>>
           ELSE /\ err' = "ValueError"
                /\ phase' = "raised"
                /\ polys' = polys
    /\ UNCHANGED <<heap, stack, inputs, trees, edits, flat, flatOf>>

NewTree ==
    /\ phase = "make"
    /\ StartTree(polys)
    /\ UNCHANGED <<polys, lastVerts, edits, flat, flatOf>>

CallAllPolygons ==
    /\ phase = "ready"
    /\ flatOf # LastTree
    /\ flat' = AllPolygons(heap, LastTree)
    /\ flatOf' = LastTree
    /\ UNCHANGED <<polys, lastVerts, err, heap, stack, phase, inputs, trees, edits>>

(***************************************************************************)
(* destruction.py                                                          *)
(***************************************************************************)
\* distance(a, b) for a = c.sum / c.k, as sqrt(sq) / k
Distance(c, b) ==
    LET dv == <<c.sum[1] - c.k * b[1], c.sum[2] - c.k * b[2],
                c.sum[3] - c.k * b[3]>>
    IN  [sq |-> Dot(dv, dv), k |-> c.k]

\* dist > radius
Greater(dist, radius) ==
    IF radius < 0 THEN TRUE ELSE dist.sq > (dist.k * radius) * (dist.k * radius)

\* A bug the filter could have: a centroid exactly on the sphere is kept.
RemainingInclusive(list, position, radius) ==
    LET RECURSIVE Loop(_, _)
        Loop(i, remaining) ==
            IF i > Len(list) THEN remaining
            ELSE LET dist == Distance(Centroid(list[i]), position)
                 IN  IF Greater(dist, radius) \/ dist.sq = (dist.k * radius) * (dist.k * radius)
                     THEN Loop(i + 1, Append(remaining, list[i]))
                     ELSE Loop(i + 1, remaining)
    IN  Loop(1, <<>>)

\* the loop of apply_explosion over tree.all_polygons()
Remaining(list, position, radius) ==
    LET RECURSIVE Loop(_, _)
        Loop(i, remaining) ==
            IF i > Len(list) THEN remaining
            ELSE IF Greater(Distance(Centroid(list[i]), position), radius)
                 THEN Loop(i + 1, Append(remaining, list[i]))
                 ELSE Loop(i + 1, remaining)
    IN  Loop(1, <<>>)

\* A bug apply_explosion could have: the survivors are built into the old
\* root, emptied, instead of a new tree.
ApplyExplosionInPlace ==
    /\ phase = "ready"
    /\ Len(edits) < MaxEdits
    /\ \E position \in Positions, radius \in Radii :
         LET all == AllPolygons(heap, LastTree)
             remaining == Remaining(all, position, radius)
         IN  /\ flat' = all
             /\ flatOf' = LastTree
             /\ edits' = Append(edits, [position |-> position, radius |-> radius])
             /\ heap' = [heap EXCEPT ![LastTree] = EmptyNode]
             /\ inputs' = Append(inputs, remaining)
             /\ err' = err
             /\ trees' = Append(trees, LastTree)
             /\ IF remaining = <<>>
                THEN stack' = <<>> /\ phase' = "ready"
                ELSE stack' = <<NewFrame(LastTree, remaining)>> /\ phase' = "building"
    /\ UNCHANGED <<polys, lastVerts>>

\* city = apply_explosion(city, position, radius)
ApplyExplosion ==
    /\ phase = "ready"
    /\ Len(edits) < MaxEdits
    /\ \E position \in Positions, radius \in Radii :
         LET all == AllPolygons(heap, LastTree)
         IN  /\ flat' = all
             /\ flatOf' = LastTree
             /\ edits' = Append(edits, [position |-> position, radius |-> radius])
             /\ StartTree(Remaining(all, position, radius))
    /\ UNCHANGED <<polys, lastVerts>>

\* the lists a later root.build(...) call is given
CallInputs == {<<>>, polys, SubSeq(polys, 2, Len(polys))}

\* tree.root.build(polygons) on a tree already constructed
CallBuild ==
    /\ phase = "ready"
    /\ Len(inputs) < MaxCalls + 1
    /\ \E polygons \in CallInputs :
         /\ inputs' = Append(inputs, polygons)
         /\ stack' = <<NewFrame(LastTree, polygons)>>
         /\ phase' = "building"
    /\ UNCHANGED <<polys, lastVerts, err, heap, trees, edits, flat, flatOf>>

Init ==
    /\ polys = <<>>
    /\ lastVerts = <<>>
    /\ err = "none"
    /\ heap = <<>>
    /\ stack = <<>>
    /\ phase = "make"
    /\ inputs = <<>>
    /\ trees = <<>>
    /\ edits = <<>>
    /\ flat = <<>>
    /\ flatOf = 0

Next ==
    \/ \E verts \in VertLists : MakePolygon(verts)
    \/ NewTree
    \/ BuildPartition
    \/ BuildFront
    \/ BuildBack
    \/ CallAllPolygons
    \/ ApplyExplosion

Spec == Init /\ [][Next]_vars

\* the same driver, calling build again on the root instead of editing
NextReentrant ==
    \/ \E verts \in VertLists : MakePolygon(verts)
    \/ NewTree
    \/ BuildPartition
    \/ BuildFront
    \/ BuildBack
    \/ CallBuild

SpecReentrant == Init /\ [][NextReentrant]_vars

(***************************************************************************)
(* Notions the properties are stated with.                                 *)
(***************************************************************************)
\* the nodes reachable from a node
RECURSIVE Reach(_, _)
Reach(h, n) ==
    IF n = 0 THEN {} ELSE {n} \cup Reach(h, h[n].front) \cup Reach(h, h[n].back)

\* own polygons, then the front subtree, then the back subtree
RECURSIVE PreOrder(_, _)
PreOrder(h, n) ==
    IF n = 0 THEN <<>>
    ELSE h[n].polygons \o PreOrder(h, h[n].front) \o PreOrder(h, h[n].back)

\* the elements of a list with their multiplicities
SeqBag(s) ==
    [x \in {s[i] : i \in DOMAIN s} |-> Cardinality({i \in DOMAIN s : s[i] = x})]

IsPrefix(s, t) == Len(s) <= Len(t) /\ SubSeq(t, 1, Len(s)) = s

\* construction number i ended in a RecursionError
Failed(i) == err = "RecursionError" /\ i = Len(inputs)

\* k * (n . centroid(q) - d) * sqrt(l2), summed vertex by vertex
SignedNum(plane, q) ==
    LET RECURSIVE Sum(_)
        Sum(i) == IF i > Len(q.vertices) THEN 0
                  ELSE Dot(plane.normal.v, q.vertices[i]) - plane.d + Sum(i + 1)
    IN  Sum(1)

\* |s| <= 1e-5 for s = n . centroid(q) - d
OnPlane(plane, q) ==
    Abs(SignedNum(plane, q)) * EpsInv
        <= ISqrt(Len(q.vertices) * Len(q.vertices) * plane.normal.l2)

InFront(plane, q) == ~OnPlane(plane, q) /\ SignedNum(plane, q) > 0

Behind(plane, q) == ~OnPlane(plane, q) /\ SignedNum(plane, q) < 0

\* the centroid of q is strictly farther than e.radius from e.position
Far(q, e) ==
    LET k == Len(q.vertices)
        c == Centroid(q).sum
        sq == (c[1] - k * e.position[1]) * (c[1] - k * e.position[1])
              + (c[2] - k * e.position[2]) * (c[2] - k * e.position[2])
              + (c[3] - k * e.position[3]) * (c[3] - k * e.position[3])
    IN  e.radius < 0 \/ sq > k * k * e.radius * e.radius

Select(list, e, far) ==
    LET Test(q) == Far(q, e) = far IN SelectSeq(list, Test)

\* same shape, planes and polygon lists
RECURSIVE SameTree(_, _, _)
SameTree(h, a, b) ==
    IF a = 0 \/ b = 0 THEN a = b
    ELSE /\ h[a].plane = h[b].plane
         /\ h[a].polygons = h[b].polygons
         /\ SameTree(h, h[a].front, h[b].front)
         /\ SameTree(h, h[a].back, h[b].back)

FirstThreeCollinear(verts) ==
    Cross(Sub(verts[2], verts[1]), Sub(verts[3], verts[1])) = <<0, 0, 0>>

(***************************************************************************)
(* C1.  Polygon coverage: every construction BSPTree(polys) returns a tree *)
(* whose all_polygons() has len(polys) elements and holds every input      *)
(* polygon exactly as often as the input does.                             *)
(***************************************************************************)
C1_PolygonCoverage ==
    \A i \in 1..Len(inputs) :
        /\ ~Failed(i)
        /\ i <= Len(trees) =>
             /\ Len(AllPolygons(heap, trees[i])) = Len(inputs[i])
             /\ SeqBag(AllPolygons(heap, trees[i])) = SeqBag(inputs[i])

\* what holds of the constructions that return
CoverageWhenBuilt ==
    \A i \in 1..Len(trees) :
        SeqBag(AllPolygons(heap, trees[i])) = SeqBag(inputs[i])

(***************************************************************************)
(* C2.  Destruction correctness: every apply_explosion(T, P, R) returns a  *)
(* tree whose polygons are exactly the polygons of T with centroid         *)
(* strictly farther than R from P; kept and removed partition T's.         *)
(***************************************************************************)
C2_DestructionCorrect ==
    \A i \in 1..Len(edits) :
        /\ ~Failed(i + 1)
        /\ i + 1 <= Len(trees) =>
             LET before == PreOrder(heap, trees[i])
                 after  == PreOrder(heap, trees[i + 1])
             IN  /\ SeqBag(after) = SeqBag(Select(before, edits[i], TRUE))
                 /\ \A j \in DOMAIN after : Far(after[j], edits[i])
                 /\ SeqBag(before)
                      = SeqBag(after \o Select(before, edits[i], FALSE))

\* what holds of the edits that return
DestructionWhenBuilt ==
    \A i \in 1..Len(edits) :
        i + 1 <= Len(trees) =>
            SeqBag(PreOrder(heap, trees[i + 1]))
                = SeqBag(Select(PreOrder(heap, trees[i]), edits[i], TRUE))

(***************************************************************************)
(* C3.  No step changes a node of a tree already constructed (so an edit   *)
(* leaves the plane, polygon list, children and traversal of its tree as   *)
(* they were), and no two trees share a node.                              *)
(***************************************************************************)
C3_EditLeavesTreeAlone ==
    [][ /\ \A i \in 1..Len(trees) :
             /\ trees'[i] = trees[i]
             /\ \A n \in Reach(heap, trees[i]) :
                    n \in DOMAIN heap' /\ heap'[n] = heap[n]
             /\ PreOrder(heap', trees[i]) = PreOrder(heap, trees[i])
        /\ \A i, j \in 1..Len(trees') :
             i # j => Reach(heap', trees'[i]) \cap Reach(heap', trees'[j]) = {}
      ]_vars

\* an edit that removed something and kept something has returned
C3_Witness ==
    /\ phase = "ready"
    /\ Len(trees) >= 2
    /\ PreOrder(heap, trees[2]) # <<>>
    /\ Len(PreOrder(heap, trees[2])) < Len(PreOrder(heap, trees[1]))

(***************************************************************************)
(* C4.  Construction always completes: no build raises.                    *)
(***************************************************************************)
C4_ConstructionCompletes == err # "RecursionError"

\* why the limit is reached only by a build that cannot end: a nested call
\* either has a shorter list than its caller or repeats it, on a node with
\* no plane yet or with the caller's plane
RepeatOrShrink ==
    \A i \in 1..(Len(stack) - 1) :
        \/ Len(stack[i + 1].polygons) < Len(stack[i].polygons)
        \/ /\ stack[i + 1].polygons = stack[i].polygons
           /\ heap[stack[i + 1].node].plane \in {<<>>, heap[stack[i].node].plane}

(***************************************************************************)
(* C5.  from_vertices raises exactly when given fewer than 3 vertices and  *)
(* then produces no polygon; otherwise it returns the polygon with the     *)
(* plane through its first three vertices: the zero normal and d = 0 when  *)
(* they are collinear, else the unit normal along (b - a) x (c - a) and    *)
(* d = normal . a.                                                         *)
(***************************************************************************)
PlaneOfFirstThree(plane, verts) ==
    LET cr == Cross(Sub(verts[2], verts[1]), Sub(verts[3], verts[1]))
        n  == plane.normal
    IN  IF cr = <<0, 0, 0>>
        THEN n.v = <<0, 0, 0>> /\ plane.d = 0
        ELSE /\ Dot(n.v, n.v) = n.l2
             /\ Cross(n.v, cr) = <<0, 0, 0>>
             /\ Dot(n.v, cr) > 0
             /\ plane.d = Dot(n.v, verts[1])

C5_FromVerticesError ==
    lastVerts # <<>> =>
        LET verts == lastVerts[1]
        IN  /\ err = "ValueError" <=> Len(verts) < 3
            /\ Len(verts) < 3 =>
                 /\ phase = "raised"
                 /\ \A i \in DOMAIN polys : polys[i].vertices # verts
            /\ Len(verts) >= 3 =>
                 /\ polys # <<>>
                 /\ polys[Len(polys)].vertices = verts
                 /\ PlaneOfFirstThree(polys[Len(polys)].plane, verts)

\* a collinear triple was accepted, then a two-vertex loop was refused
C5_Witness ==
    /\ err = "ValueError"
    /\ Len(lastVerts[1]) = 2
    /\ \E i \in DOMAIN polys :
         /\ FirstThreeCollinear(polys[i].vertices)
         /\ polys[i].plane.normal.v = <<0, 0, 0>>

(***************************************************************************)
(* C6.  all_polygons() returns the pre-order list of its tree (own         *)
(* polygons, front subtree, back subtree); the list stays the one a new    *)
(* call would return, and the call leaves every node of the tree as it was.*)
(***************************************************************************)
C6_PreOrderTraversal ==
    /\ [](flatOf # 0 => flat = PreOrder(heap, flatOf))
    /\ [][ (flatOf' # flatOf \/ flat' # flat) =>
             /\ flat' = PreOrder(heap, flatOf')
             /\ \A n \in Reach(heap, flatOf') : heap'[n] = heap[n]
         ]_vars

\* a traversal of a tree with own polygons, a front and a back subtree
C6_Witness ==
    /\ flatOf # 0
    /\ heap[flatOf].front # 0
    /\ heap[flatOf].back # 0
    /\ Len(flat) = 3

(***************************************************************************)
(* C7.  Placement: for every node with a plane, its own polygons have      *)
(* |s| <= 1e-5, the polygons of its front subtree s > 1e-5 and those of    *)
(* its back subtree s < -1e-5, s the signed distance of the centroid.      *)
(***************************************************************************)
C7_Placement ==
    \A n \in DOMAIN heap :
        heap[n].plane # <<>> =>
            LET plane == heap[n].plane[1]
                own   == heap[n].polygons
                front == PreOrder(heap, heap[n].front)
                back  == PreOrder(heap, heap[n].back)
            IN  /\ \A i \in DOMAIN own : OnPlane(plane, own[i])
                /\ \A i \in DOMAIN front : InFront(plane, front[i])
                /\ \A i \in DOMAIN back : Behind(plane, back[i])

\* a finished tree with polygons on both sides of the root, and at the
\* root a polygon with a vertex off the root's plane
C7_Witness ==
    /\ phase = "ready"
    /\ heap[LastTree].front # 0
    /\ heap[LastTree].back # 0
    /\ \E i \in DOMAIN heap[LastTree].polygons :
         LET q == heap[LastTree].polygons[i]
             pl == heap[LastTree].plane[1]
         IN  \E j \in DOMAIN q.vertices :
                 Dot(pl.normal.v, q.vertices[j]) # pl.d

(***************************************************************************)
(* C8.  A node's plane is fixed at first assignment: a build call with an  *)
(* empty list changes nothing; the first non-empty one sets the plane of   *)
(* its first polygon; every build step leaves a plane that is set, and     *)
(* children that exist, as they are, and appends to the node's list the    *)
(* polygons of the input on the node's plane, in input order; the front    *)
(* list goes to the front child that exists.                               *)
(***************************************************************************)
C8_PlaneFixed ==
    [][ /\ \A n \in DOMAIN heap :
             /\ heap[n].plane # <<>> => heap'[n].plane = heap[n].plane
             /\ heap[n].front # 0 => heap'[n].front = heap[n].front
             /\ heap[n].back # 0 => heap'[n].back = heap[n].back
             /\ IsPrefix(heap[n].polygons, heap'[n].polygons)
        /\ (phase = "building" /\ Top.pc = "enter") =>
             LET n == Top.node
                 P == Top.polygons
                 Here(q) == OnPlane(heap'[n].plane[1], q)
             IN  IF P = <<>> THEN heap' = heap
                 ELSE /\ heap[n].plane = <<>> => heap'[n].plane = <<P[1].plane>>
                      /\ heap'[n].polygons = heap[n].polygons \o SelectSeq(P, Here)
        /\ (phase = "building" /\ Top.pc = "front" /\ Top.front # <<>>
              /\ heap[Top.node].front # 0 /\ phase' = "building") =>
             stack'[Len(stack')].node = heap[Top.node].front
      ]_vars

\* a second build on the root, led by a polygon of another plane, has added
\* to the root's list and to its front child
C8_Witness ==
    /\ phase = "ready"
    /\ Len(inputs) = 2
    /\ inputs[2] # <<>>
    /\ heap[LastTree].plane # <<inputs[2][1].plane>>
    /\ Len(heap[LastTree].polygons) >= 3
    /\ heap[LastTree].front # 0
    /\ Len(heap[heap[LastTree].front].polygons) >= 2

(***************************************************************************)
(* C9.  Degenerate splitting plane: when the first polygon given to        *)
(* BSPTree has collinear first three vertices, construction returns, the   *)
(* root stores the whole input in input order, it has no child, and        *)
(* all_polygons() is the input.                                            *)
(***************************************************************************)
C9_DegenerateRoot ==
    \A i \in 1..Len(inputs) :
        (inputs[i] # <<>> /\ FirstThreeCollinear(inputs[i][1].vertices)) =>
            /\ ~Failed(i)
            /\ i <= Len(trees) =>
                 /\ heap[trees[i]].polygons = inputs[i]
                 /\ heap[trees[i]].front = 0
                 /\ heap[trees[i]].back = 0
                 /\ AllPolygons(heap, trees[i]) = inputs[i]

\* a tree built from a degenerate polygon followed by polygons of three
\* other planes
C9_Witness ==
    /\ phase = "ready"
    /\ Len(inputs[1]) = 3
    /\ FirstThreeCollinear(inputs[1][1].vertices)
    /\ ~FirstThreeCollinear(inputs[1][2].vertices)
    /\ inputs[1][2].plane # inputs[1][3].plane
    /\ heap[trees[1]].polygons = inputs[1]

(***************************************************************************)
(* C10.  Rebuild is a fixpoint: an edit that removes nothing returns, and  *)
(* returns a tree of the same shape, planes and polygon lists (so the same *)
(* traversal); an edit applied again to its own result gives the same      *)
(* traversal.                                                              *)
(***************************************************************************)
C10_RebuildFixpoint ==
    \A i \in 1..Len(edits) :
        LET before == PreOrder(heap, trees[i])
        IN  /\ (\A j \in DOMAIN before : Far(before[j], edits[i])) =>
                 /\ ~Failed(i + 1)
                 /\ i + 1 <= Len(trees) =>
                      /\ SameTree(heap, trees[i], trees[i + 1])
                      /\ PreOrder(heap, trees[i + 1]) = before
            /\ (i + 2 <= Len(trees) /\ edits[i + 1] = edits[i]) =>
                 PreOrder(heap, trees[i + 2]) = PreOrder(heap, trees[i + 1])

\* an edit that removed something, applied again to its own result, which
\* has a root and a back child: the second edit removes nothing and rebuilds
C10_Witness ==
    /\ phase = "ready"
    /\ Len(trees) = 3
    /\ edits[1].radius = 1
    /\ edits[2] = edits[1]
    /\ Len(PreOrder(heap, trees[2])) < Len(PreOrder(heap, trees[1]))
    /\ heap[trees[2]].back # 0
====
